---- MODULE Spec2Model ----
(***************************************************************************)
(* A model of expo-image-cache: the browser cache (WebImageCache over      *)
(* IndexedDB), the native file cache (expo-file-system) and the            *)
(* CachedImage component that resolves an image through one of them.       *)
(*                                                                         *)
(* One CachedImage instance is mounted, re-rendered and unmounted; every   *)
(* call of loadImageAsync is a "resolve" with its own closure (uri,        *)
(* cacheKey, expiresIn of the render that started it).  A step of the      *)
(* model is one macrotask of the JavaScript event loop together with the   *)
(* microtasks it drains: the continuation of an `await` on an already      *)
(* settled promise runs in the step that settled it.                      *)
(***************************************************************************)
EXTENDS Integers, Sequences, FiniteSets, TLC

VARIABLES
    platform,      \* Platform.OS: "web" or "native"
    clock,         \* Date.now(), in milliseconds
    db,            \* WebImageCache.db: TRUE when a connection is held
    opens,         \* indexedDB.open requests issued so far
    store,         \* the object store: safe key -> <<>> or <<record>>
    txQueue,       \* IndexedDB transactions created and not yet run
    urls,          \* object URLs created: urls[i] = [bytes, revoked]
    files,         \* native cache directory: safe key -> <<>> or <<file>>
    phase,         \* "init", "mounted", "unmounted" (the instance's life)
    props,         \* the instance's current props
    isIntersecting,\* useIntersectionObserver's state
    mountedRef,    \* componentIsMounted.current
    imgUri,        \* useState imgUri
    hasError,      \* useState hasError
    isLoading,     \* useState isLoading
    effectImgUri,  \* imgUri captured by the cleanup of the effect now active
    resolves,      \* the loadImageAsync calls made so far
    changes,       \* re-renders caused by the parent or the observer, so far
    errorBy,       \* the call site that last set hasError to true
    lateUpdates,   \* state setters called after the final unmount
    invoked,       \* loadImageAsync calls since the mount or the last change
                   \* of (uri, cacheKey)
    seen,          \* isIntersecting has been true since the mount
    probe          \* inputs and result of the expiry predicate (SpecExpiry)

vars == <<platform, clock, db, opens, store, txQueue, urls, files, phase,
          props, isIntersecting, mountedRef, imgUri, hasError, isLoading,
          effectImgUri, resolves, changes, errorBy, lateUpdates, invoked,
          seen, probe>>

-----------------------------------------------------------------------------
(* Bounds of the model. *)

MaxTicks == 1
MaxChanges == 3
MaxResolves == 2
MaxProbeSteps == 4
MaxProbeExpires == 2

(* Program constants. *)

MsPerSec == 1000

(* The clock advances in steps of a second and a half. *)
TickMs == MsPerSec + MsPerSec \div 2

Uris == {"u1", "u2"}
CacheKeys == {"k:1", "k2"}
Pairs == {<<"u1", "k:1">>, <<"u2", "k:1">>, <<"u2", "k2">>}

None == <<>>
Some(x) == <<x>>

ExpiresChoices == {None, Some(1)}

-----------------------------------------------------------------------------
(* Strings the component holds as a handle. *)

NullUri == [kind |-> "null", name |-> "", n |-> 0]
RemoteUri(u) == [kind |-> "remote", name |-> u, n |-> 0]
BlobUrl(i) == [kind |-> "blob", name |-> "", n |-> i]
FilePath(k) == [kind |-> "file", name |-> k, n |-> 0]
FilePathBusted(k, t) == [kind |-> "filequery", name |-> k, n |-> t]

StartsWithBlob(h) == h.kind = "blob"

(* The body a successful GET of uri returns. *)
BodyOf(u) == [from |-> u, complete |-> TRUE]

-----------------------------------------------------------------------------
(* sanitizeCacheKey (src/utils, not among the sources): a total,           *)
(* idempotent map from a cache key to a storage-safe key.                  *)

sanitizeCacheKey(k) == IF k = "k:1" THEN "k_1" ELSE k

SafeKeys == {sanitizeCacheKey(k) : k \in CacheKeys}

-----------------------------------------------------------------------------
(* JavaScript truthiness of an optional number: undefined and 0 are falsy. *)

Truthy(e) == e # None /\ e[1] # 0

(* webCache.ts 55-63: the web expiry test on a stored record at time now.  *)
(* elapsed = (now - timestamp) / 1000 > expiresIn, over the rationals,     *)
(* is (now - timestamp) > expiresIn * 1000 over the integers.              *)
WebExpired(data, now) ==
    /\ Truthy(data.expiresIn)
    /\ now - data.timestamp > data.expiresIn[1] * MsPerSec

(* consts.ts 182-188: the native test uses the expiresIn of the render     *)
(* that started the resolve and the file's modification time.              *)
isImageExpired(metadata, expiresIn, now) ==
    /\ metadata # None
    /\ Truthy(expiresIn)
    /\ now - metadata[1].mtime > expiresIn[1] * MsPerSec

(* consts.ts 190-194 *)
shouldDownloadImage(metadata, expiresIn, now) ==
    \/ metadata = None
    \/ metadata[1].size = 0
    \/ isImageExpired(metadata, expiresIn, now)

-----------------------------------------------------------------------------
(* Object URLs.  URL.createObjectURL returns a fresh URL for every call;    *)
(* `by` is the resolve whose getImage or saveImage made the call.           *)

createObjectURL(blob, r) ==
    Append(urls, [bytes |-> blob, revoked |-> 0, by |-> r])

Min(a, b) == IF a < b THEN a ELSE b

(* URL.revokeObjectURL on a handle, when the cleanup finds it a blob URL.  *)
(* The count is kept up to 2: released twice.                              *)
revokeObjectURL(h) ==
    IF StartsWithBlob(h)
    THEN [urls EXCEPT ![h.n].revoked = Min(@ + 1, 2)]
    ELSE urls

-----------------------------------------------------------------------------
(* A resolve: one call of loadImageAsync with the closure of its render.   *)

Done(r) == resolves[r].pc = "done"

SettledSet == {r \in 1..Len(resolves) : Done(r)}

NewResolve(p, pc0) ==
    [uri |-> p.uri, key |-> p.cacheKey, expiresIn |-> p.expiresIn,
     pc |-> pc0,
     lookup |-> "none",      \* what the cache lookup returned
     fetch |-> "none",       \* how the network fetch ended
     fetches |-> 0,          \* network fetches issued
     saved |-> "none",       \* how the store write ended
     result |-> NullUri,     \* the handle exposed when this resolve settled
     observed |-> None,      \* the bytes of the entry a lookup hit returned
     meta |-> None,          \* the metadata getInfoAsync returned
     putAt |-> None,         \* the timestamp of the record it handed to put,
                             \* the modification time of the file it wrote
     live |-> FALSE,         \* settled while the instance was mounted
     prior |-> SettledSet]   \* the resolves settled when this one started

(* A fallback that sets no uri. *)
FallbackHandleNone(u) == NullUri

(* consts.ts 140, 172, 209: the handle the component falls back to is the  *)
(* original uri, as given.                                                 *)
FallbackHandle(u) == RemoteUri(u)

-----------------------------------------------------------------------------
(* IndexedDB transactions on the one object store run in the order they    *)
(* were created.                                                           *)

GetTx(k, r) == [op |-> "get", key |-> k, r |-> r, data |-> None]
PutTx(k, r, d) == [op |-> "put", key |-> k, r |-> r, data |-> Some(d)]
DeleteTx(k, r) == [op |-> "delete", key |-> k, r |-> r, data |-> None]

-----------------------------------------------------------------------------
(* The component's state setters.  A resolve that settles runs the         *)
(* `finally` of loadImageAsync (setIsLoading(false)); img is Some(h) when  *)
(* it called setImgUri(h), threw when it went through the catch            *)
(* (setHasError(true)).  React drops an update of an unmounted instance;   *)
(* the call is recorded in lateUpdates.                                    *)

Settle(r, rec, img, threw) ==
    /\ imgUri' = IF img # None /\ phase = "mounted" THEN img[1] ELSE imgUri
    /\ hasError' = IF threw /\ phase = "mounted" THEN TRUE ELSE hasError
    /\ errorBy' = IF threw /\ phase = "mounted" THEN "catch" ELSE errorBy
    /\ isLoading' = IF phase = "mounted" THEN FALSE ELSE isLoading
    /\ lateUpdates' =
          IF phase = "unmounted"
          THEN lateUpdates \cup {"setIsLoading"}
                 \cup (IF threw THEN {"setHasError"} ELSE {})
                 \cup (IF img # None THEN {"setImgUri"} ELSE {})
          ELSE lateUpdates
    /\ resolves' = [resolves EXCEPT ![r] =
          [rec EXCEPT !.pc = "done",
                      !.live = (phase = "mounted"),
                      !.result = IF phase = "mounted" THEN imgUri'
                                 ELSE NullUri]]

compState == <<imgUri, hasError, isLoading, errorBy, lateUpdates>>

-----------------------------------------------------------------------------
(* consts.ts 73-98: the effect of CachedImage and its cleanup.             *)

(* A getImage that does not wait for init: it reads at once. *)
LoadStartNoInit(st, p) ==
    LET r == Len(st.resolves) + 1 IN
    IF platform = "web"
    THEN [resolves |-> Append(st.resolves, NewResolve(p, "get")),
          txQueue |-> Append(st.txQueue,
                             GetTx(sanitizeCacheKey(p.cacheKey), r)),
          opens |-> st.opens]
    ELSE [resolves |-> Append(st.resolves, NewResolve(p, "info")),
          txQueue |-> st.txQueue,
          opens |-> st.opens]

(* loadImageAsync up to its first suspension (consts.ts 126-135): on web  *)
(* webCache.getImage awaits init(), which returns at once when a           *)
(* connection is held (webCache.ts 9) and otherwise issues an open         *)
(* request; on native FileSystem.getInfoAsync is called.  st holds the     *)
(* resolves, the transactions and the open requests so far.                *)
LoadStart(st, p) ==
    LET r == Len(st.resolves) + 1 IN
    IF platform = "web"
    THEN IF db
         THEN [resolves |-> Append(st.resolves, NewResolve(p, "get")),
               txQueue |-> Append(st.txQueue,
                                  GetTx(sanitizeCacheKey(p.cacheKey), r)),
               opens |-> st.opens]
         ELSE [resolves |-> Append(st.resolves, NewResolve(p, "open")),
               txQueue |-> st.txQueue,
               opens |-> st.opens + 1]
    ELSE [resolves |-> Append(st.resolves, NewResolve(p, "info")),
          txQueue |-> st.txQueue,
          opens |-> st.opens]

LoadTimes(st, p, n) ==
    IF n = 0 THEN st
    ELSE IF n = 1 THEN LoadStart(st, p)
    ELSE LoadStart(LoadStart(st, p), p)

(* The effect, run for a render with props p and state imgUri = img, the   *)
(* last of `runs` runs in this step of which `loads` called loadImageAsync *)
(* (line 82: not lazy, or intersecting).  It marks the instance mounted    *)
(* and its cleanup keeps the imgUri of its render.                         *)
EffectRun(p, img, loads) ==
    /\ Len(resolves) + loads <= MaxResolves
    /\ mountedRef' = TRUE
    /\ effectImgUri' = img
    /\ LET st == LoadTimes([resolves |-> resolves, txQueue |-> txQueue,
                            opens |-> opens], p, loads)
       IN  /\ resolves' = st.resolves
           /\ txQueue' = st.txQueue
           /\ opens' = st.opens
    /\ IF loads > 0
       THEN /\ isLoading' = TRUE
            /\ hasError' = FALSE
            /\ errorBy' = "none"
       ELSE UNCHANGED <<isLoading, hasError, errorBy>>

(* The cleanup of the effect: it revokes the imgUri its own render saw.    *)
Cleanup == IF platform = "web" THEN revokeObjectURL(effectImgUri) ELSE urls

(* useIntersectionObserver.ts 19-24: with lazy loading disabled, or not on *)
(* web, the hook's effect sets isIntersecting to true right after the      *)
(* first render.                                                           *)
HookSetsVisible(lz) == ~lz \/ platform # "web"

(* An effect that loads whatever the visibility. *)
ShouldLoadAlways(lz, vis) == TRUE

(* consts.ts 82: the effect loads the main image when lazy loading is off  *)
(* or the instance intersects.                                             *)
ShouldLoad(lz, vis) == ~lz \/ vis

(* The calls of loadImageAsync a mount makes: one by the effect of the     *)
(* first render (isIntersecting is false), one by the effect of the        *)
(* render that follows the hook's setIsIntersecting(true).                 *)
MountLoads(lz) ==
    (IF ShouldLoad(lz, FALSE) THEN 1 ELSE 0)
      + (IF HookSetsVisible(lz) /\ ShouldLoad(lz, TRUE) THEN 1 ELSE 0)

(* First render and the effects of the mount.  The hook's effect runs      *)
(* first, then the component's effect (isIntersecting still false: it      *)
(* loads when not lazy).  When the hook has set isIntersecting the         *)
(* instance renders again at once: the dependency changed, so the cleanup  *)
(* runs (the first render's imgUri is no blob URL) and the effect runs a   *)
(* second time and loads.                                                  *)
Mount(e, lz) ==
    /\ phase = "init"
    /\ phase' = "mounted"
    /\ props' = [uri |-> "u1", cacheKey |-> "k:1", expiresIn |-> e, lazy |-> lz]
    /\ imgUri' = IF platform = "web" THEN NullUri
                 ELSE FilePath(sanitizeCacheKey(props'.cacheKey))
    /\ isIntersecting' = HookSetsVisible(lz)
    /\ seen' = HookSetsVisible(lz)
    /\ invoked' = MountLoads(lz)
    /\ EffectRun(props', imgUri', MountLoads(lz))
    /\ UNCHANGED <<platform, clock, db, store, urls, files, changes,
                   lateUpdates, probe>>

(* A re-render whose dependencies [uri, cacheKey, lazy, isIntersecting]    *)
(* changed: the cleanup of the previous effect, then the effect again.     *)
Rerender(p, vis) ==
    /\ urls' = Cleanup
    /\ props' = p
    /\ isIntersecting' = vis
    /\ seen' = (seen \/ vis)
    /\ invoked' = (IF <<p.uri, p.cacheKey>> = <<props.uri, props.cacheKey>>
                   THEN invoked ELSE 0)
                  + (IF ShouldLoad(p.lazy, vis) THEN 1 ELSE 0)
    /\ EffectRun(p, imgUri, IF ShouldLoad(p.lazy, vis) THEN 1 ELSE 0)
    /\ UNCHANGED <<platform, clock, db, store, files, phase, imgUri,
                   lateUpdates, probe>>

(* useIntersectionObserver.ts 26-34: the observer reports a change. *)
Observe(v) ==
    /\ phase = "mounted"
    /\ props.lazy /\ platform = "web"
    /\ v # isIntersecting
    /\ changes < MaxChanges
    /\ changes' = changes + 1
    /\ Rerender(props, v)

(* The parent renders the instance with another (uri, cacheKey). *)
ChangePair(u, k) ==
    /\ phase = "mounted"
    /\ <<u, k>> \in Pairs
    /\ <<u, k>> # <<props.uri, props.cacheKey>>
    /\ changes < MaxChanges
    /\ changes' = changes + 1
    /\ Rerender([props EXCEPT !.uri = u, !.cacheKey = k], isIntersecting)

Unmount ==
    /\ phase = "mounted"
    /\ phase' = "unmounted"
    /\ mountedRef' = FALSE
    /\ urls' = Cleanup
    /\ UNCHANGED <<platform, clock, db, opens, store, txQueue, files, props,
                   isIntersecting, imgUri, hasError, isLoading, effectImgUri,
                   resolves, changes, errorBy, lateUpdates, invoked, seen,
                   probe>>

(* consts.ts 254-326: the image element is rendered once the instance is   *)
(* past the lazy placeholder and holds an imgUri; its onError (318-322),   *)
(* the render failure, sets hasError on a mounted instance.                *)
RenderError ==
    /\ phase = "mounted"
    /\ ~(props.lazy /\ ~isIntersecting)
    /\ imgUri # NullUri
    /\ mountedRef
    /\ ~hasError
    /\ hasError' = TRUE
    /\ errorBy' = "onError"
    /\ UNCHANGED <<platform, clock, db, opens, store, txQueue, urls, files,
                   phase, props, isIntersecting, mountedRef, imgUri, isLoading,
                   effectImgUri, resolves, changes, lateUpdates, invoked, seen,
                   probe>>

-----------------------------------------------------------------------------
(* webCache.ts: the browser cache.                                         *)

webOnly == <<platform, clock, files, phase, props, isIntersecting,
             mountedRef, effectImgUri, changes, invoked, seen, probe>>

(* webCache.ts 19-22, 33-46: the open request of a getImage succeeds; the  *)
(* connection is kept and the read transaction is created.                 *)
OpenSuccess(r) ==
    /\ resolves[r].pc = "open"
    /\ db' = TRUE
    /\ txQueue' = Append(txQueue, GetTx(sanitizeCacheKey(resolves[r].key), r))
    /\ resolves' = [resolves EXCEPT ![r].pc = "get"]
    /\ UNCHANGED <<opens, store, urls>>
    /\ UNCHANGED compState
    /\ UNCHANGED webOnly

(* webCache.ts 14-17: the open request fails and init() rejects; getImage  *)
(* awaits it without a catch, so loadImageWeb throws into the catch of     *)
(* loadImageAsync (consts.ts 136-144).                                     *)
OpenFail(r) ==
    /\ resolves[r].pc = "open"
    /\ Settle(r, [resolves[r] EXCEPT !.lookup = "rejected"],
              IF mountedRef THEN Some(FallbackHandle(resolves[r].uri)) ELSE None,
              TRUE)
    /\ UNCHANGED <<db, opens, store, txQueue, urls>>
    /\ UNCHANGED webOnly

(* A lookup whose cached URL is ignored: the instance downloads again. *)
AfterGetImageRefetch(r, rec, cachedUri) ==
    IF mountedRef
    THEN /\ resolves' = [resolves EXCEPT ![r] =
                [rec EXCEPT !.pc = "fetch", !.fetches = @ + 1]]
         /\ UNCHANGED compState
    ELSE Settle(r, rec, None, FALSE)

(* consts.ts 147-176, after `await webCache.getImage`: with a cached URL   *)
(* and a mounted instance the URL becomes imgUri; otherwise a mounted      *)
(* instance starts downloadAndCache (webCache.ts 134: fetch); an unmounted *)
(* one does nothing more.                                                  *)
AfterGetImage(r, rec, cachedUri) ==
    IF cachedUri # None /\ mountedRef
    THEN Settle(r, rec, cachedUri, FALSE)
    ELSE IF mountedRef
         THEN /\ resolves' = [resolves EXCEPT ![r] =
                     [rec EXCEPT !.pc = "fetch", !.fetches = @ + 1]]
              /\ UNCHANGED compState
         ELSE Settle(r, rec, None, FALSE)

(* webCache.ts 47-68: the read of getImage succeeds. *)
TxGet ==
    /\ txQueue # <<>>
    /\ Head(txQueue).op = "get"
    /\ LET tx == Head(txQueue)
           r == tx.r
           data == store[tx.key]
       IN  IF data = None
           THEN /\ txQueue' = Tail(txQueue)
                /\ urls' = urls
                /\ AfterGetImage(r, [resolves[r] EXCEPT !.lookup = "miss"], None)
           ELSE IF WebExpired(data[1], clock)
           THEN \* deleteImage is called and not awaited: its transaction
                \* is created, and getImage resolves null at once
                /\ txQueue' = Append(Tail(txQueue), DeleteTx(sanitizeCacheKey(tx.key), r))
                /\ urls' = urls
                /\ AfterGetImage(r, [resolves[r] EXCEPT !.lookup = "expired"], None)
           ELSE /\ txQueue' = Tail(txQueue)
                /\ urls' = createObjectURL(data[1].blob, r)
                /\ AfterGetImage(r, [resolves[r] EXCEPT
                                        !.lookup = "hit",
                                        !.observed = Some(data[1].blob)],
                                 Some(BlobUrl(Len(urls'))))
    /\ UNCHANGED <<db, opens, store>>
    /\ UNCHANGED webOnly

(* webCache.ts 70: the read fails; getImage resolves null. *)
TxGetError ==
    /\ txQueue # <<>>
    /\ Head(txQueue).op = "get"
    /\ txQueue' = Tail(txQueue)
    /\ AfterGetImage(Head(txQueue).r,
                     [resolves[Head(txQueue).r] EXCEPT !.lookup = "error"], None)
    /\ UNCHANGED <<db, opens, store, urls>>
    /\ UNCHANGED webOnly

(* webCache.ts 119-124: the delete of deleteImage runs. *)
TxDelete ==
    /\ txQueue # <<>>
    /\ Head(txQueue).op = "delete"
    /\ txQueue' = Tail(txQueue)
    /\ store' = [store EXCEPT ![Head(txQueue).key] = None]
    /\ UNCHANGED <<db, opens, urls, resolves>>
    /\ UNCHANGED compState
    /\ UNCHANGED webOnly

(* consts.ts 166-175, after `await webCache.downloadAndCache`. *)
AfterDownloadAndCache(r, rec, newUri) ==
    Settle(r, rec,
           IF mountedRef
           THEN (IF newUri # None THEN newUri
                 ELSE Some(FallbackHandle(resolves[r].uri)))
           ELSE None,
           FALSE)

(* webCache.ts 134-142: the fetch of downloadAndCache ends.  A response    *)
(* that is ok is read as a blob and handed to saveImage (74-98), which     *)
(* stamps the record and creates the write transaction; a response that is *)
(* not ok, or a fetch that throws, makes downloadAndCache return null.     *)
FetchDone(r, outcome) ==
    /\ resolves[r].pc = "fetch"
    /\ IF outcome = "ok"
       THEN IF db
            THEN /\ txQueue' = Append(txQueue,
                       PutTx(sanitizeCacheKey(resolves[r].key), r,
                             [blob |-> BodyOf(resolves[r].uri),
                              timestamp |-> clock,
                              expiresIn |-> resolves[r].expiresIn]))
                 /\ resolves' = [resolves EXCEPT ![r].pc = "put",
                                                 ![r].fetch = outcome,
                                                 ![r].putAt = Some(clock)]
                 /\ UNCHANGED compState
            ELSE /\ txQueue' = txQueue
                 /\ AfterDownloadAndCache(r,
                       [resolves[r] EXCEPT !.fetch = outcome], None)
       ELSE /\ txQueue' = txQueue
            /\ AfterDownloadAndCache(r,
                  [resolves[r] EXCEPT !.fetch = outcome], None)
    /\ UNCHANGED <<db, opens, store, urls>>
    /\ UNCHANGED webOnly

(* A write that keeps the record the key already holds. *)
TxPutKeepFirst ==
    /\ txQueue # <<>>
    /\ Head(txQueue).op = "put"
    /\ LET tx == Head(txQueue) IN
        /\ txQueue' = Tail(txQueue)
        /\ store' = IF store[tx.key] = None
                    THEN [store EXCEPT ![tx.key] = tx.data]
                    ELSE store
        /\ urls' = createObjectURL(tx.data[1].blob, tx.r)
        /\ AfterDownloadAndCache(tx.r,
              [resolves[tx.r] EXCEPT !.saved = "ok"],
              Some(BlobUrl(Len(urls'))))
    /\ UNCHANGED <<db, opens>>
    /\ UNCHANGED webOnly

(* webCache.ts 98-103: the write of saveImage succeeds. *)
TxPut ==
    /\ txQueue # <<>>
    /\ Head(txQueue).op = "put"
    /\ LET tx == Head(txQueue) IN
        /\ txQueue' = Tail(txQueue)
        /\ store' = [store EXCEPT ![tx.key] = tx.data]
        /\ urls' = createObjectURL(tx.data[1].blob, tx.r)
        /\ AfterDownloadAndCache(tx.r,
              [resolves[tx.r] EXCEPT !.saved = "ok"],
              Some(BlobUrl(Len(urls'))))
    /\ UNCHANGED <<db, opens>>
    /\ UNCHANGED webOnly

(* webCache.ts 105: the write fails; saveImage resolves null. *)
TxPutError ==
    /\ txQueue # <<>>
    /\ Head(txQueue).op = "put"
    /\ txQueue' = Tail(txQueue)
    /\ AfterDownloadAndCache(Head(txQueue).r,
          [resolves[Head(txQueue).r] EXCEPT !.saved = "error"], None)
    /\ UNCHANGED <<db, opens, store, urls>>
    /\ UNCHANGED webOnly

-----------------------------------------------------------------------------
(* consts.ts 196-252: the native cache, one file per safe key.             *)

nativeOnly == <<platform, clock, db, opens, store, txQueue, urls, phase,
                props, isIntersecting, mountedRef, effectImgUri, changes,
                invoked, seen, probe>>

FileOf(r) == sanitizeCacheKey(resolves[r].key)

(* What FileSystem.downloadAsync leaves at fileURI: the body of a 200      *)
(* response, the body of any other response (it may be empty), or, when    *)
(* the call throws, nothing or a part of the body.                         *)
DownloadOutcomes == {"ok", "notok", "notok_empty", "throw", "throw_partial"}

Downloaded(u, outcome, now) ==
    CASE outcome = "ok" ->
           Some([body |-> BodyOf(u), size |-> 1, mtime |-> now])
      [] outcome = "notok" ->
           Some([body |-> [from |-> u, complete |-> FALSE], size |-> 1,
                 mtime |-> now])
      [] outcome = "notok_empty" ->
           Some([body |-> [from |-> u, complete |-> FALSE], size |-> 0,
                 mtime |-> now])
      [] outcome = "throw_partial" ->
           Some([body |-> [from |-> u, complete |-> FALSE], size |-> 1,
                 mtime |-> now])

(* consts.ts 213-220: downloadImage returns at once when the instance is   *)
(* unmounted, and otherwise calls FileSystem.downloadAsync.                *)
downloadImage(r, rec) ==
    IF mountedRef
    THEN /\ resolves' = [resolves EXCEPT ![r] =
                [rec EXCEPT !.pc = "download", !.fetches = @ + 1]]
         /\ UNCHANGED compState
    ELSE Settle(r, rec, None, FALSE)

(* consts.ts 230-248: getInfoAsync returns the file's metadata. *)
InfoDone(r) ==
    /\ resolves[r].pc = "info"
    /\ LET metadata == files[FileOf(r)]
           e == resolves[r].expiresIn
           rec == [resolves[r] EXCEPT !.meta = metadata]
       IN  IF ~shouldDownloadImage(metadata, e, clock)
           THEN Settle(r, [rec EXCEPT !.lookup = "hit",
                                      !.observed = Some(metadata[1].body)],
                       None, FALSE)
           ELSE IF isImageExpired(metadata, e, clock)
           THEN /\ resolves' = [resolves EXCEPT ![r] =
                       [rec EXCEPT !.pc = "del_expired", !.lookup = "expired"]]
                /\ UNCHANGED compState
           ELSE downloadImage(r, [rec EXCEPT !.lookup =
                                     IF metadata = None THEN "miss" ELSE "empty"])
    /\ UNCHANGED files
    /\ UNCHANGED nativeOnly

(* consts.ts 225-228: handleExpiredImage, after its deleteAsync. *)
DelExpiredDone(r) ==
    /\ resolves[r].pc = "del_expired"
    /\ files' = [files EXCEPT ![FileOf(r)] = None]
    /\ downloadImage(r, resolves[r])
    /\ UNCHANGED nativeOnly

(* consts.ts 216-222 and 196-208: downloadAsync ends.  A call that throws  *)
(* reaches the catch of loadImageAsync; a response goes to                 *)
(* handleSuccessfulDownload, which returns at once when the instance is    *)
(* unmounted, shows the file on status 200 and otherwise starts deleting   *)
(* it.                                                                     *)
DownloadDone(r, outcome) ==
    /\ resolves[r].pc = "download"
    /\ files' = IF outcome = "throw" THEN files
                ELSE [files EXCEPT ![FileOf(r)] =
                         Downloaded(resolves[r].uri, outcome, clock)]
    /\ LET rec == [resolves[r] EXCEPT
                      !.fetch = outcome,
                      !.putAt = IF outcome = "throw" THEN None ELSE Some(clock)]
       IN
       IF outcome \in {"throw", "throw_partial"}
       THEN Settle(r, rec,
                   IF mountedRef THEN Some(FallbackHandle(resolves[r].uri))
                   ELSE None,
                   TRUE)
       ELSE IF ~mountedRef
       THEN Settle(r, rec, None, FALSE)
       ELSE IF outcome = "ok"
       THEN Settle(r, rec, Some(FilePathBusted(FileOf(r), clock)), FALSE)
       ELSE /\ resolves' = [resolves EXCEPT ![r] =
                   [rec EXCEPT !.pc = "del_failed"]]
            /\ UNCHANGED compState
    /\ UNCHANGED nativeOnly

(* consts.ts 208-210: after the deleteAsync of a failed download the       *)
(* original uri becomes imgUri, with no look at componentIsMounted.        *)
DelFailedDone(r) ==
    /\ resolves[r].pc = "del_failed"
    /\ files' = [files EXCEPT ![FileOf(r)] = None]
    /\ Settle(r, resolves[r], Some(FallbackHandle(resolves[r].uri)), FALSE)
    /\ UNCHANGED nativeOnly

-----------------------------------------------------------------------------
(* Time passes. *)
Tick ==
    /\ clock < MaxTicks * TickMs
    /\ clock' = clock + TickMs
    /\ UNCHANGED <<platform, db, opens, store, txQueue, urls, files, phase,
                   props, isIntersecting, mountedRef, imgUri, hasError,
                   isLoading, effectImgUri, resolves, changes, errorBy,
                   lateUpdates, invoked, seen, probe>>

-----------------------------------------------------------------------------
(* The state after construction: no connection (webCache.ts 6), nothing    *)
(* rendered.  The origin's database and the cache directory outlive the    *)
(* page: they are empty or hold what an earlier run stored under one key.  *)

NoEntries == [k \in SafeKeys |-> None]

SeededStores ==
    {NoEntries} \cup
    {[NoEntries EXCEPT !["k_1"] =
         Some([blob |-> BodyOf("u1"), timestamp |-> 0, expiresIn |-> Some(1)])]}

SeededFiles ==
    {NoEntries} \cup
    {[NoEntries EXCEPT !["k_1"] =
         Some([body |-> [from |-> "u1", complete |-> (z = 1)], size |-> z,
               mtime |-> 0])] :
       z \in {0, 1}} \cup
    {[NoEntries EXCEPT !["k2"] =
         Some([body |-> BodyOf("u2"), size |-> 1, mtime |-> 0])]}

NoProbe == [variant |-> "none", storedAt |-> 0, now |-> 0, expiresIn |-> None,
            checked |-> FALSE, expired |-> FALSE]

Init ==
    /\ platform \in {"web", "native"}
    /\ clock = 0
    /\ db = FALSE
    /\ opens = 0
    /\ store \in (IF platform = "web" THEN SeededStores ELSE {NoEntries})
    /\ files \in (IF platform = "native" THEN SeededFiles ELSE {NoEntries})
    /\ txQueue = <<>>
    /\ urls = <<>>
    /\ phase = "init"
    /\ props = [uri |-> "u1", cacheKey |-> "k:1", expiresIn |-> None,
                lazy |-> FALSE]
    /\ isIntersecting = FALSE
    /\ mountedRef = FALSE
    /\ imgUri = NullUri
    /\ hasError = FALSE
    /\ isLoading = TRUE
    /\ effectImgUri = NullUri
    /\ resolves = <<>>
    /\ changes = 0
    /\ errorBy = "none"
    /\ lateUpdates = {}
    /\ invoked = 0
    /\ seen = FALSE
    /\ probe = NoProbe

Next ==
    \/ \E e \in ExpiresChoices, lz \in BOOLEAN : Mount(e, lz)
    \/ \E v \in BOOLEAN : Observe(v)
    \/ \E u \in Uris, k \in CacheKeys : ChangePair(u, k)
    \/ Unmount
    \/ RenderError
    \/ \E r \in 1..Len(resolves) : OpenSuccess(r)
    \/ \E r \in 1..Len(resolves) : OpenFail(r)
    \/ TxGet
    \/ TxGetError
    \/ TxDelete
    \/ \E r \in 1..Len(resolves), o \in {"ok", "notok", "throw"} : FetchDone(r, o)
    \/ TxPut
    \/ TxPutError
    \/ \E r \in 1..Len(resolves) : InfoDone(r)
    \/ \E r \in 1..Len(resolves) : DelExpiredDone(r)
    \/ \E r \in 1..Len(resolves), o \in DownloadOutcomes : DownloadDone(r, o)
    \/ \E r \in 1..Len(resolves) : DelFailedDone(r)
    \/ Tick

Spec == Init /\ [][Next]_vars

-----------------------------------------------------------------------------
(* The expiry test on its own: an entry stored at storedAt, looked up at   *)
(* now, under each variant.                                                *)

ProbeTimes == {i * (MsPerSec \div 2) : i \in 0..MaxProbeSteps}
ProbeExpires == {None} \cup {Some(n) : n \in 0..MaxProbeExpires}

InitExpiry ==
    /\ platform \in {"web", "native"}
    /\ clock = 0
    /\ db = FALSE
    /\ opens = 0
    /\ store = NoEntries
    /\ files = NoEntries
    /\ txQueue = <<>>
    /\ urls = <<>>
    /\ phase = "init"
    /\ props = [uri |-> "u1", cacheKey |-> "k:1", expiresIn |-> None,
                lazy |-> FALSE]
    /\ isIntersecting = FALSE
    /\ mountedRef = FALSE
    /\ imgUri = NullUri
    /\ hasError = FALSE
    /\ isLoading = TRUE
    /\ effectImgUri = NullUri
    /\ resolves = <<>>
    /\ changes = 0
    /\ errorBy = "none"
    /\ lateUpdates = {}
    /\ invoked = 0
    /\ seen = FALSE
    /\ \E t0 \in ProbeTimes, t1 \in ProbeTimes, e \in ProbeExpires :
          /\ t0 <= t1
          /\ probe = [variant |-> platform, storedAt |-> t0, now |-> t1,
                      expiresIn |-> e, checked |-> FALSE, expired |-> FALSE]

(* The lookup applies the variant's test: webCache.ts 55-63 to the stored  *)
(* record, consts.ts 182-188 to the file's metadata.                       *)
CheckExpiry ==
    /\ ~probe.checked
    /\ probe' = [probe EXCEPT
          !.checked = TRUE,
          !.expired =
             IF probe.variant = "web"
             THEN WebExpired([blob |-> BodyOf("u1"),
                              timestamp |-> probe.storedAt,
                              expiresIn |-> probe.expiresIn], probe.now)
             ELSE isImageExpired(Some([body |-> BodyOf("u1"), size |-> 1,
                                       mtime |-> probe.storedAt]),
                                 probe.expiresIn, probe.now)]
    /\ UNCHANGED <<platform, clock, db, opens, store, txQueue, urls, files,
                   phase, props, isIntersecting, mountedRef, imgUri, hasError,
                   isLoading, effectImgUri, resolves, changes, errorBy,
                   lateUpdates, invoked, seen>>

NextExpiry == CheckExpiry

SpecExpiry == InitExpiry /\ [][NextExpiry]_vars

-----------------------------------------------------------------------------
(* The native lookup on its own: an instance is mounted over a cache       *)
(* directory that is empty or holds a file of key "k:1", empty or not,     *)
(* written at any of the probe times; its resolves run to their end while  *)
(* it stays mounted and the clock stands.                                  *)

DecideFiles ==
    {NoEntries} \cup
    {[NoEntries EXCEPT !["k_1"] =
         Some([body |-> [from |-> "u1", complete |-> (z = 1)], size |-> z,
               mtime |-> t])] :
       z \in {0, 1}, t \in ProbeTimes}

InitDecide ==
    /\ platform = "native"
    /\ clock \in ProbeTimes
    /\ db = FALSE
    /\ opens = 0
    /\ store = NoEntries
    /\ files \in {f \in DecideFiles :
                     f["k_1"] # None => f["k_1"][1].mtime <= clock}
    /\ txQueue = <<>>
    /\ urls = <<>>
    /\ phase = "init"
    /\ props = [uri |-> "u1", cacheKey |-> "k:1", expiresIn |-> None,
                lazy |-> FALSE]
    /\ isIntersecting = FALSE
    /\ mountedRef = FALSE
    /\ imgUri = NullUri
    /\ hasError = FALSE
    /\ isLoading = TRUE
    /\ effectImgUri = NullUri
    /\ resolves = <<>>
    /\ changes = 0
    /\ errorBy = "none"
    /\ lateUpdates = {}
    /\ invoked = 0
    /\ seen = FALSE
    /\ probe = NoProbe

NextDecide ==
    \/ \E e \in ProbeExpires, lz \in BOOLEAN : Mount(e, lz)
    \/ \E r \in 1..Len(resolves) : InfoDone(r)
    \/ \E r \in 1..Len(resolves) : DelExpiredDone(r)
    \/ \E r \in 1..Len(resolves), o \in DownloadOutcomes : DownloadDone(r, o)
    \/ \E r \in 1..Len(resolves) : DelFailedDone(r)

SpecDecide == InitDecide /\ [][NextDecide]_vars

-----------------------------------------------------------------------------
(* Properties.                                                             *)

Resolves == 1..Len(resolves)
AllSettled == \A r \in Resolves : Done(r)
FailedFetch == {"notok", "notok_empty", "throw", "throw_partial"}
SafeKeyOf(r) == sanitizeCacheKey(resolves[r].key)

(* C1: on web every object URL made for the instance is revoked exactly    *)
(* once by the time the instance is unmounted and its resolves have        *)
(* settled: none is left unrevoked and none is revoked twice.              *)
C1_EveryHandleRevokedOnce ==
    (phase = "unmounted" /\ AllSettled) =>
        \A i \in 1..Len(urls) : urls[i].revoked = 1

(* C2: a resolve that settles after the instance was unmounted applies no  *)
(* state update (no setter is called) and leaks no handle (every URL it    *)
(* made is revoked).                                                       *)
C2_LateSettleAppliesAndLeaksNothing ==
    \A r \in Resolves :
        (Done(r) /\ ~resolves[r].live) =>
            /\ lateUpdates = {}
            /\ \A i \in 1..Len(urls) : urls[i].by = r => urls[i].revoked = 1

(* C3: hasError is true only through the image's onError; a failure of     *)
(* the cache, the storage or the network never sets it.                    *)
C3_ErrorOnlyFromRender == hasError => errorBy = "onError"

(* C4: no backend operation raises to its caller: getImage never rejects,  *)
(* also when init fails.                                                   *)
C4_GetImageNeverRejects ==
    \A r \in Resolves : resolves[r].lookup # "rejected"

(* C5: once everything has settled, a key whose lookup found no entry (or  *)
(* an expired one) and whose fetch ended with a status that is not a       *)
(* success, with no fetch that succeeded, holds no entry: nothing stored   *)
(* on web, no file on native.                                              *)
C5_NoEntryAfterFailedFetch ==
    \A r \in Resolves :
        ( /\ AllSettled
          /\ txQueue = <<>>
          /\ resolves[r].fetch \in {"notok", "notok_empty"}
          /\ resolves[r].lookup \in {"miss", "expired"}
          /\ \A q \in Resolves : resolves[q].fetch # "ok" )
        => /\ store[SafeKeyOf(r)] = None
           /\ files[SafeKeyOf(r)] = None

(* C6: a resolve whose fetch or store step failed and that settled while   *)
(* the instance was mounted leaves the original uri, unmodified, as the    *)
(* instance's handle, on web and on native.                                *)
C6_FallbackIsOriginalUri ==
    \A r \in Resolves :
        ( /\ Done(r)
          /\ resolves[r].live
          /\ resolves[r].fetch \in FailedFetch \/ resolves[r].saved = "error" )
        => resolves[r].result = RemoteUri(resolves[r].uri)

(* C6, reached: a native download answered with a status other than 200,   *)
(* its file was deleted and the mounted instance shows the original uri.   *)
C6_Witness ==
    \E r \in Resolves :
        /\ platform = "native"
        /\ Done(r)
        /\ resolves[r].live
        /\ resolves[r].fetch = "notok"
        /\ imgUri = RemoteUri(resolves[r].uri)

(* C7: when getImage has returned null for an expired entry, the delete of *)
(* that entry has been carried out: it is not still waiting to run.        *)
C7_ExpiredEntryDeletedBeforeReturn ==
    \A r \in Resolves :
        resolves[r].lookup = "expired" =>
            \A i \in 1..Len(txQueue) :
                ~(txQueue[i].op = "delete" /\ txQueue[i].r = r)

(* C8: under both variants an entry is expired exactly when its expiresIn  *)
(* is set (0 included) and the seconds elapsed since it was stored are     *)
(* strictly more than expiresIn.                                           *)
C8_ExpiredIffSetAndElapsed ==
    probe.checked =>
        (probe.expired <=>
            /\ probe.expiresIn # None
            /\ probe.now - probe.storedAt > probe.expiresIn[1] * MsPerSec)

-----------------------------------------------------------------------------
(* Two resolves of one (uri, cacheKey) with expiresIn set, j started after *)
(* i had settled, both settled on a mounted instance, every other resolve  *)
(* over before i started or started after j settled; i returned a handle   *)
(* from the cache (it found the entry or fetched and stored it) and j      *)
(* found the entry present and unexpired (so within expiresIn of its       *)
(* storing).                                                               *)

HandleBytes(h) ==
    CASE h.kind = "blob" -> Some(urls[h.n].bytes)
      [] h.kind \in {"file", "filequery"} ->
            (IF files[h.name] = None THEN None ELSE Some(files[h.name][1].body))
      [] OTHER -> None

Cached(h) == h.kind \in {"blob", "file", "filequery"}

Served(i) ==
    \/ resolves[i].lookup = "hit"
    \/ resolves[i].saved = "ok"
    \/ platform = "native" /\ resolves[i].fetch = "ok"

SecondFindsEntry(i, j) ==
    /\ i \in resolves[j].prior
    /\ Served(i)
    /\ resolves[i].uri = resolves[j].uri
    /\ resolves[i].key = resolves[j].key
    /\ resolves[i].expiresIn = Some(1)
    /\ resolves[j].expiresIn = Some(1)
    /\ Done(j)
    /\ resolves[i].live /\ resolves[j].live
    /\ resolves[j].lookup = "hit"
    /\ \A k \in Resolves \ {i, j} :
          k \in resolves[i].prior \/ j \in resolves[k].prior

C10_MissThenExactlyOneFetch ==
    \A r \in Resolves :
        /\ (Done(r) /\ resolves[r].live
              /\ resolves[r].lookup \notin {"hit", "expired", "empty"})
           => /\ resolves[r].lookup \in {"miss", "error"}
              /\ resolves[r].fetches = 1
        /\ (Len(resolves) = 1 /\ resolves[r].saved = "ok")
           => /\ store[SafeKeyOf(r)] # None
              /\ store[SafeKeyOf(r)][1].blob = BodyOf(resolves[r].uri)

-----------------------------------------------------------------------------
(* C11: for a mounted instance and one value of (uri, cacheKey),           *)
(* loadImageAsync is invoked exactly once: never more than once, and once  *)
(* as soon as lazy loading is off or the instance is visible.              *)
C11_OneResolvePerPair ==
    phase = "mounted" =>
        /\ invoked <= 1
        /\ ShouldLoad(props.lazy, isIntersecting) => invoked = 1

(* C12: while lazy loading is on and the instance has never been visible,  *)
(* no resolve has been invoked: no open request, no lookup, no fetch.      *)
C12_LazyGating ==
    (phase = "mounted" /\ props.lazy /\ ~seen) =>
        /\ resolves = <<>>
        /\ txQueue = <<>>
        /\ opens = 0

(* C12, reached: a lazy instance on web, never visible, whose pair has     *)
(* changed, over a store that holds an entry; nothing was looked up.       *)
C12_Witness ==
    /\ phase = "mounted" /\ props.lazy /\ ~seen
    /\ platform = "web"
    /\ changes > 0
    /\ store["k_1"] # None
    /\ resolves = <<>>

(* C13: init calls made before the first open request has completed issue  *)
(* no second open request: at most one request is pending at a time.       *)
C13_OneOpenRequest ==
    Cardinality({r \in Resolves : resolves[r].pc = "open"}) <= 1

(* C14: a reader never observes an entry that is not complete: the bytes a *)
(* lookup hit returned (the stored blob on web, the file on native) are a  *)
(* whole image, also while another resolve of the key is writing it.       *)
(* Downloads that ended by throwing are left aside.                        *)
C14_ReadersSeeCompleteEntry ==
    (\A q \in Resolves : resolves[q].fetch \notin {"throw", "throw_partial"})
    => \A r \in Resolves :
          resolves[r].observed # None => resolves[r].observed[1].complete

-----------------------------------------------------------------------------
(* A put of resolve i followed by a get of resolve j on the same key of    *)
(* the browser store: j started after i's put had completed, its read      *)
(* succeeded, and no other resolve wrote or deleted the key in between.    *)
PutThenGet(i, j) ==
    /\ platform = "web"
    /\ i # j
    /\ resolves[i].saved = "ok"
    /\ i \in resolves[j].prior
    /\ SafeKeyOf(i) = SafeKeyOf(j)
    /\ resolves[j].lookup \in {"hit", "miss", "expired"}
    /\ \A k \in Resolves \ {i, j} :
          \/ SafeKeyOf(k) # SafeKeyOf(i)
          \/ k \in resolves[i].prior
          \/ j \in resolves[k].prior
          \/ resolves[k].putAt = None /\ resolves[k].lookup # "expired"

(* The time is within expiresIn seconds of i's put, or expiresIn is unset. *)
WithinExpiry(i) ==
    \/ resolves[i].expiresIn = None
    \/ clock - resolves[i].putAt[1] <= resolves[i].expiresIn[1] * MsPerSec

(* C15: put(k, payload, expiresIn) then get(k), within expiresIn seconds   *)
(* or with expiresIn unset, returns a handle whose bytes are the payload   *)
(* of that put, whatever the key held before the put.                      *)
C15_PutGetRoundTrip ==
    \A i \in Resolves, j \in Resolves :
        (PutThenGet(i, j) /\ WithinExpiry(i)) =>
            /\ resolves[j].lookup = "hit"
            /\ resolves[j].observed = Some(BodyOf(resolves[i].uri))
            /\ \E n \in 1..Len(urls) :
                  urls[n].by = j /\ urls[n].bytes = BodyOf(resolves[i].uri)

(* C15, reached: a put for uri u1, then a get of the same key by a resolve *)
(* of another uri, which is handed the bytes of u1.                        *)
C15_Witness ==
    \E i \in Resolves, j \in Resolves :
        /\ PutThenGet(i, j) /\ WithinExpiry(i)
        /\ resolves[i].uri # resolves[j].uri
        /\ resolves[j].lookup = "hit"
        /\ resolves[j].result.kind = "blob"
        /\ urls[resolves[j].result.n].bytes = BodyOf(resolves[i].uri)

(* C16: a resolve that had issued its fetch when the instance was          *)
(* unmounted, whose fetch then succeeded and whose write did not fail,     *)
(* leaves the fetched bytes under its key once everything has settled (no  *)
(* other resolve fetched): within expiresIn of the write, a later lookup   *)
(* of the key finds them.                                                  *)
C16_FetchedEntryPersists ==
    \A r \in Resolves :
        ( /\ AllSettled
          /\ txQueue = <<>>
          /\ resolves[r].putAt # None
          /\ WithinExpiry(r)
          /\ ~resolves[r].live
          /\ resolves[r].fetches = 1
          /\ resolves[r].fetch = "ok"
          /\ resolves[r].saved # "error"
          /\ \A q \in Resolves \ {r} : resolves[q].fetches = 0 )
        => IF platform = "web"
           THEN /\ store[SafeKeyOf(r)] # None
                /\ store[SafeKeyOf(r)][1].blob = BodyOf(resolves[r].uri)
           ELSE /\ files[SafeKeyOf(r)] # None
                /\ files[SafeKeyOf(r)][1].body = BodyOf(resolves[r].uri)

-----------------------------------------------------------------------------
(* The file state a native lookup met, read by the table of the            *)
(* specification: expired when expiresIn is set and more than expiresIn    *)
(* seconds have passed since the file was written.                         *)
Missing(m) == m = None
ZeroBytes(m) == m # None /\ m[1].size = 0
ExpiredFile(m, e) ==
    /\ m # None
    /\ e # None
    /\ clock - m[1].mtime > e[1] * MsPerSec

(* The resolve downloads: it has called downloadAsync or is deleting the   *)
(* expired file on its way to it.                                          *)
Downloads(r) == resolves[r].fetches = 1 \/ resolves[r].pc = "del_expired"

(* C17: a native resolve (of an instance that stays mounted) downloads     *)
(* exactly when the file it met is missing, empty or expired; a missing    *)
(* or empty file is a miss whatever its age; an expired, non-empty file is *)
(* deleted before the download; a present, non-empty, unexpired file is a  *)
(* hit with no delete and no download.                                     *)
C17_NativeDecisionTable ==
    \A r \in Resolves :
        resolves[r].lookup # "none" =>
            LET m == resolves[r].meta
                e == resolves[r].expiresIn
            IN  /\ Downloads(r) <=>
                      (Missing(m) \/ ZeroBytes(m) \/ ExpiredFile(m, e))
                /\ (Missing(m) \/ ZeroBytes(m)) =>
                      resolves[r].lookup \in {"miss", "empty"}
                /\ (~Missing(m) /\ ~ZeroBytes(m) /\ ExpiredFile(m, e)) =>
                      resolves[r].lookup = "expired"
                /\ (~Missing(m) /\ ~ZeroBytes(m) /\ ~ExpiredFile(m, e)) =>
                      /\ resolves[r].lookup = "hit"
                      /\ Len(resolves) = 1 => files[SafeKeyOf(r)] = m

(* C18: every transaction on the browser store was created with a          *)
(* connection held: a read, write or delete waits to run, or has run,      *)
(* only after an open request succeeded.                                   *)
C18_OpenBeforeUse ==
    /\ txQueue # <<>> => db /\ opens >= 1
    /\ \A r \in Resolves :
          ( /\ platform = "web"
            /\ \/ resolves[r].lookup \in {"hit", "miss", "expired", "error"}
               \/ resolves[r].pc \in {"get", "put"}
               \/ resolves[r].saved # "none" )
          => db

(* C18, reached: one open request failed, a later one succeeded, and a     *)
(* write waits in the store's queue with the connection held.              *)
C18_Witness ==
    /\ db
    /\ \E r \in Resolves : resolves[r].lookup = "rejected"
    /\ \E i \in 1..Len(txQueue) : txQueue[i].op = "put"

-----------------------------------------------------------------------------
(* The handle belongs to the instance's current (uri, cacheKey): it is the *)
(* original uri, an object URL made by a resolve of the current pair, or   *)
(* the file of the current key.                                            *)
BelongsToCurrentPair(h) ==
    CASE h.kind = "remote" -> h.name = props.uri
      [] h.kind = "blob" ->
            /\ resolves[urls[h.n].by].uri = props.uri
            /\ resolves[urls[h.n].by].key = props.cacheKey
      [] h.kind \in {"file", "filequery"} ->
            h.name = sanitizeCacheKey(props.cacheKey)
      [] OTHER -> FALSE

(* C19: on a mounted instance whose pair has changed and for whose current *)
(* pair a resolve was invoked, once every resolve has settled the handle   *)
(* belongs to the current pair.  Resolves that threw are left aside.       *)
C19_HandleOfCurrentPair ==
    ( /\ phase = "mounted"
      /\ AllSettled
      /\ invoked >= 1
      /\ \A r \in Resolves :
            /\ resolves[r].lookup # "rejected"
            /\ resolves[r].fetch \notin {"throw", "throw_partial"}
      /\ \E r \in Resolves :
            <<resolves[r].uri, resolves[r].key>> # <<props.uri, props.cacheKey>> )
    => BelongsToCurrentPair(imgUri)

(* C20: on web, when a resolve's read found the key's entry expired and    *)
(* its re-fetch stored a fresh entry, no delete triggered by an expired    *)
(* read (its own or a concurrent resolve's) removes the fresh entry: once  *)
(* the store's queue is empty and while the fresh entry is within its      *)
(* expiresIn, the key holds an entry.                                      *)
C20_StaleDeleteSparesFreshEntry ==
    \A r \in Resolves :
        ( /\ platform = "web"
          /\ txQueue = <<>>
          /\ resolves[r].lookup = "expired"
          /\ resolves[r].saved = "ok"
          /\ WithinExpiry(r) )
        => store[SafeKeyOf(r)] # None

====
